---- MODULE Spec2Model ----
(***************************************************************************)
(* A model of the metro sampler: the stratified sampling engine            *)
(* (metro_sampler/sampler.py, select_sample and assign_strata) and the     *)
(* UZA -> CBSA resolver (metro_sampler/data_ntd.py).                        *)
(***************************************************************************)
EXTENDS Integers, Sequences, FiniteSets, TLC

\* ------------------------------------------------------------------ bounds

\* Largest number of rows of the frame handed to select_sample.
MaxRegions == 4

\* Largest number of rows of the Census answer the index is built from.
MaxRows == 3

\* Largest number of rows of the frames assign_strata alone is tried on.
MaxBoundaryRows == 2

\* Largest number of calls of _uza_to_cbsa in one process.
MaxCalls == 3

\* Largest number of rows of the NTD agency file and of the GBFS catalog.
MaxRecords == 2

\* ------------------------------------------------- configuration (config.py)

RANDOM_SEED == 42

\* MIN_POPULATION_COVERAGE = 0.5, kept as the fraction CoverageNum / CoverageDen.
CoverageNum == 1
CoverageDen == 2

\* for _ in range(100)
LoopBound == 100

\* POP_STRATA, in the dict's insertion order; inf marks an upper bound of
\* float("inf").
POP_STRATA ==
    << [label |-> "Mega",   lo |-> 5000000, hi |-> 0,       inf |-> TRUE],
       [label |-> "Large",  lo |-> 1000000, hi |-> 5000000, inf |-> FALSE],
       [label |-> "Medium", lo |-> 500000,  hi |-> 1000000, inf |-> FALSE],
       [label |-> "Small",  lo |-> 0,       hi |-> 500000,  inf |-> FALSE] >>

\* ---------------------------------------------------------- input domains

\* The (population, has_rail) pairs a row of the input frame is drawn from.
RegionKinds ==
    { [population |-> 0,      has_rail |-> FALSE],
      [population |-> 300000, has_rail |-> FALSE],
      [population |-> 600000, has_rail |-> TRUE] }

\* Values of TOP_N_MANDATORY, TARGET_SAMPLE_SIZE and MAX_SAMPLE_SIZE tried.
TopNValues == 0 .. 1
TargetValues == 0 .. 3
MaxSizeValues == {1, 3}

\* Values rng.integers(1e9) may return.
RngValues == {0, 1}

\* Populations assign_strata is tried on, around every bucket boundary.
BoundaryPops ==
    { -1, 0, 1, 499999, 500000, 500001, 999999, 1000000, 1000001,
      4999999, 5000000, 5000001, 20000000 }

\* NAME values the Census API may answer with.
ApiNames ==
    { << "Dallas", "-", "Fort Worth", "-", "Arlington", ",", " ", "TX", " ", "Metro Area" >>,
      << "Springfield", ",", " ", "MO", " ", "Metro Area" >>,
      << "Springfield", ",", " ", "IL", " ", "Metro Area" >>,
      << "Kansas City", ",", " ", "MO", "-", "KS", " ", "Metro Area" >>,
      << "Arlington", ",", " ", "TX", " ", "Micro Area" >> }

\* Arguments _uza_to_cbsa is called with, besides the names of the regions.
UzaTexts ==
    { << >>,
      << "Dallas", "-", "-", "Fort Worth", ",", " ", "TX" >>,
      << "dallas", ",", " ", "tx" >>,
      << "Springfield" >>,
      << "Arlington" >>,
      << "Kansas City", ",", " ", "KS" >>,
      << "Kansas City", "-", "-", "Springfield", ",", " ", "IL" >>,
      << "Springfield", ",", " ", "IL", "-", "MO" >>,
      << "Texas", " ", "Non", "-", "UZA" >>,
      << "Dallas", "-", "-", "NON", "-", "UZA", ",", " ", "TX" >>,
      << "NON", "-", "UZA" >> }

\* ------------------------------------------------------------- variables

VARIABLES
    msa_df,              \* the frame handed to select_sample
    pop_dtype,           \* dtype of its population column
    TOP_N_MANDATORY,     \* config.TOP_N_MANDATORY
    TARGET_SAMPLE_SIZE,  \* config.TARGET_SAMPLE_SIZE
    MAX_SAMPLE_SIZE,     \* config.MAX_SAMPLE_SIZE
    pc,                  \* position in select_sample
    df,                  \* msa_df with the stratum columns
    total_pop,
    mandatory,
    remaining_pool,
    slots_left,
    strata,              \* keys of stratum_counts / allocation, in dict order
    stratum_counts,
    allocation,
    iter,                \* iterations of the rebalancing loop completed
    candidates,          \* rest of the candidates of the pass under way
    loop_exit,           \* how the rebalancing loop was left
    last_change,         \* the last single decrement / increment of the loop
    rng_calls,           \* rng.integers calls made by this run
    rng_stream,          \* the outputs of default_rng(RANDOM_SEED) seen so far
    draw_idx,            \* next entry of allocation.items() to draw
    picked,              \* stratum -> rows drawn from it
    sampled,
    sample,
    pop_coverage,        \* <<numerator, denominator>> of the last coverage
    needed,              \* rest of the rows the top-up loop iterates over
    topup_log,           \* coverage before and after every top-up addition
    error,               \* exception raised by select_sample, "" if none
    run,                 \* 1 for the first call of select_sample, 2 for the second
    first,               \* what the first call produced
    api_rows,            \* the rows the Census API answers with
    UZA_CBSA_CACHE,      \* data_ntd._UZA_CBSA_CACHE
    rpc,                 \* position in _uza_to_cbsa / _build_uza_cbsa_map
    census,              \* the frame _build_uza_cbsa_map iterates over
    build_pos,           \* rows of census processed so far
    city_state_idx,
    city_only,
    city_ambig,
    uza_name,            \* argument of the last call of _uza_to_cbsa
    result,              \* value the last call of _uza_to_cbsa returned
    fetches,             \* requests.get calls made by _build_uza_cbsa_map
    builds,              \* index builds completed
    calls,               \* calls of _uza_to_cbsa made in this process
    ntd_rows,            \* the rows of the NTD agency file
    gbfs_rows,           \* the rows of the GBFS systems catalog
    agencies,            \* what load_ntd_agencies returned
    agency_agg,          \* what agencies_by_cbsa returned
    systems,             \* what fetch_gbfs_systems returned
    gbfs_agg,            \* what gbfs_by_cbsa returned
    apc                  \* position in steps 2 and 3 of run_sampling.main

samplerVars ==
    << msa_df, pop_dtype, TOP_N_MANDATORY, TARGET_SAMPLE_SIZE, MAX_SAMPLE_SIZE, pc, df,
       total_pop, mandatory, remaining_pool, slots_left, strata,
       stratum_counts, allocation, iter, candidates, loop_exit, last_change,
       rng_calls, rng_stream, draw_idx, picked, sampled, sample, pop_coverage,
       needed, topup_log, error, run, first >>

resolverVars ==
    << api_rows, UZA_CBSA_CACHE, rpc, census, build_pos, city_state_idx,
       city_only, city_ambig, uza_name, result, fetches, builds, calls >>

aggVars ==
    << ntd_rows, gbfs_rows, agencies, agency_agg, systems, gbfs_agg, apc >>

vars == << samplerVars, resolverVars, aggVars >>

\* ---------------------------------------------------------------- helpers

Min2(a, b) == IF a <= b THEN a ELSE b
Max2(a, b) == IF a >= b THEN a ELSE b

Range(s) == { s[i] : i \in 1 .. Len(s) }

RECURSIVE SumSeq(_)
SumSeq(s) == IF s = << >> THEN 0 ELSE Head(s) + SumSeq(Tail(s))

\* sum(col) over the rows of a frame
SumPop(rows) == SumSeq([i \in 1 .. Len(rows) |-> rows[i].population])

\* rows of a frame satisfying a test, in frame order
RECURSIVE SelectRows(_, _)
SelectRows(rows, keep) ==
    IF rows = << >> THEN << >>
    ELSE IF Head(rows) \in keep
         THEN << Head(rows) >> \o SelectRows(Tail(rows), keep)
         ELSE SelectRows(Tail(rows), keep)

\* sorted(seq, key=..., reverse=True) and sort_values(ascending=False): a
\* stable descending sort, key given as a function on 1 .. Len(seq).
SortDesc(seq, key) ==
    LET n == Len(seq)
        rank(i) == Cardinality({ j \in 1 .. n :
                       key[j] > key[i] \/ (key[j] = key[i] /\ j < i) }) + 1
    IN  [p \in 1 .. n |-> seq[CHOOSE i \in 1 .. n : rank(i) = p]]

\* Python's round(a / b) for b > 0: round half to even.
PyRound(a, b) ==
    LET q == a \div b
        r == a % b
    IN  IF 2 * r < b THEN q
        ELSE IF 2 * r > b THEN q + 1
        ELSE IF q % 2 = 0 THEN q ELSE q + 1

\* ----------------------------------------------------------- assign_strata

\* a bucket test with the interval closed above and open below
InBucket_closed_above(pop, b) == b.lo < pop /\ (b.inf \/ pop <= b.hi)

InBucket(pop, b) == b.lo <= pop /\ (b.inf \/ pop < b.hi)

pop_stratum(pop) ==
    LET hits == { i \in 1 .. Len(POP_STRATA) : InBucket(pop, POP_STRATA[i]) }
    IN  IF hits = {} THEN "Small"
        ELSE POP_STRATA[CHOOSE i \in hits : \A j \in hits : i <= j].label

rail_stratum(has_rail) == IF has_rail THEN "Rail" ELSE "NoRail"

sm_stratum(has_sm) == IF has_sm THEN "SM" ELSE "NoSM"

assign_strata(frame) ==
    [i \in 1 .. Len(frame) |->
        [cbsa_code  |-> frame[i].cbsa_code,
         population |-> frame[i].population,
         pop_stratum |-> pop_stratum(frame[i].population),
         stratum    |-> << pop_stratum(frame[i].population),
                           rail_stratum(frame[i].has_rail),
                           sm_stratum(frame[i].has_shared_mobility),
                           frame[i].census_region >>]]

\* ---------------------------------------------------- select_sample helpers

\* distinct strata of a frame, in order of first appearance
RECURSIVE Uniques(_, _)
Uniques(rows, seen) ==
    IF rows = << >> THEN << >>
    ELSE IF Head(rows).stratum \in seen
         THEN Uniques(Tail(rows), seen)
         ELSE << Head(rows).stratum >>
                  \o Uniques(Tail(rows), seen \cup { Head(rows).stratum })

CountOf(rows, s) == Cardinality({ i \in 1 .. Len(rows) : rows[i].stratum = s })

\* rows[rows["stratum"] == s]
PoolOf(rows, s) == SelectRows(rows, { r \in Range(rows) : r.stratum = s })

\* keys of frame["stratum"].value_counts().to_dict(): by count, largest
\* first, equal counts in order of first appearance
value_counts(rows) ==
    LET u == Uniques(rows, {})
    IN  SortDesc(u, [i \in 1 .. Len(u) |-> CountOf(rows, u[i])])

SumAlloc(alloc, keys) == SumSeq([i \in 1 .. Len(keys) |-> alloc[keys[i]]])

\* the initial proportional allocation of one stratum
InitialShare(slots, count, n_remaining, n_strata) ==
    LET raw0 == PyRound(slots * count, n_remaining)
        raw  == IF n_strata <= slots THEN Max2(1, raw0) ELSE raw0
    IN  Min2(count, Max2(0, raw))

\* slots_left with the mandatory rows added instead of taken off
SlotsLeft_adds_mandatory(target, n_mandatory) == target + n_mandatory

\* slots_left without the mandatory rows taken off
SlotsLeft_ignores_mandatory(target, n_mandatory) == target

\* slots_left = TARGET_SAMPLE_SIZE - len(mandatory)
SlotsLeft(target, n_mandatory) == target - n_mandatory

\* df.head(n) and df.iloc[n:]
HeadRows(rows, n) == SubSeq(rows, 1, Min2(n, Len(rows)))
TailRows(rows, n) == SubSeq(rows, Min2(n, Len(rows)) + 1, Len(rows))

\* candidates of the removal pass: sorted(allocation, key=allocation[s], reverse=True)
RemoveCandidates(alloc, keys) ==
    SortDesc(keys, [i \in 1 .. Len(keys) |-> alloc[keys[i]]])

\* the room test inverted: the strata allocated more than they hold
AddCandidates_inverted(alloc, counts, keys) ==
    LET withRoom == SelectSeq(keys, LAMBDA s : alloc[s] > counts[s])
    IN  SortDesc(withRoom,
                 [i \in 1 .. Len(withRoom) |->
                     counts[withRoom[i]] - alloc[withRoom[i]]])

\* candidates of the addition pass: the strata with room, most room first
AddCandidates(alloc, counts, keys) ==
    LET withRoom == SelectSeq(keys, LAMBDA s : alloc[s] < counts[s])
    IN  SortDesc(withRoom,
                 [i \in 1 .. Len(withRoom) |->
                     counts[withRoom[i]] - alloc[withRoom[i]]])

\* the candidates a removal pass still acts on: the leading entries whose
\* test `allocation[s] > 0 and sum(...) > slots_left` fails change nothing
RECURSIVE Removable(_, _, _, _)
Removable(cands, alloc, keys, slots) ==
    IF cands = << >> THEN << >>
    ELSE IF alloc[Head(cands)] > 0 /\ SumAlloc(alloc, keys) > slots
         THEN cands
         ELSE Removable(Tail(cands), alloc, keys, slots)

\* a generator shared by the calls of select_sample instead of a fresh one
default_rng_shared(calls_before) == calls_before

\* rng = np.random.default_rng(RANDOM_SEED): a fresh generator, no output
\* consumed, whatever earlier calls of select_sample consumed
default_rng(calls_before) == 0

\* a draw with replacement: the same row n times
PoolSample_with_replacement(pool, n, rs) ==
    [i \in 1 .. n |-> pool[(rs % Len(pool)) + 1]]

\* pool.sample(n=n, random_state=rs): n rows of the pool, chosen by rs
PoolSample(pool, n, rs) ==
    [i \in 1 .. n |-> pool[((rs + i - 1) % Len(pool)) + 1]]

Tag(rows, method) ==
    [i \in 1 .. Len(rows) |->
        [cbsa_code |-> rows[i].cbsa_code,
         population |-> rows[i].population,
         stratum |-> rows[i].stratum,
         selection_method |-> method,
         sample_weight |-> << 0, 0 >>]]

\* sample["population"].sum() / total_pop, as <<numerator, denominator>>
Coverage(rows, total) == << SumPop(rows), total >>

\* pop_coverage < MIN_POPULATION_COVERAGE; a nan (0 / 0) compares False
BelowTarget(cov) ==
    cov[2] > 0 /\ cov[1] * CoverageDen < CoverageNum * cov[2]

\* the rows not yet in the sample, left in frame order
Needed_unsorted(frame, smp) ==
    LET have == { smp[i].cbsa_code : i \in 1 .. Len(smp) }
    IN  SelectRows(frame, { r \in Range(frame) : r.cbsa_code \notin have })

\* df[~df["cbsa_code"].isin(sample["cbsa_code"])].sort_values("population",
\* ascending=False)
Needed(frame, smp) ==
    LET have == { smp[i].cbsa_code : i \in 1 .. Len(smp) }
        rest == SelectRows(frame, { r \in Range(frame) : r.cbsa_code \notin have })
    IN  SortDesc(rest, [i \in 1 .. Len(rest) |-> rest[i].population])

\* the weight of a row without the certainty override of the mandatory rows
WeightOf_no_override(row, frame, smp) ==
    << CountOf(frame, row.stratum), CountOf(smp, row.stratum) >>

\* a weight whose denominator leaves out the mandatory members of the stratum
WeightOf_drawn_only(row, frame, smp) ==
    IF row.selection_method = "mandatory_top10" THEN << 1, 1 >>
    ELSE << CountOf(frame, row.stratum),
            Cardinality({ i \in 1 .. Len(smp) :
                /\ smp[i].stratum = row.stratum
                /\ smp[i].selection_method # "mandatory_top10" }) >>

\* the weight of one row of the sample: N_stratum / n_stratum, 1.0 for a
\* mandatory row
WeightOf(row, frame, smp) ==
    IF row.selection_method = "mandatory_top10" THEN << 1, 1 >>
    ELSE << CountOf(frame, row.stratum), CountOf(smp, row.stratum) >>

WithWeights(frame, smp) ==
    LET w == [i \in 1 .. Len(smp) |->
                 [smp[i] EXCEPT !.sample_weight = WeightOf(smp[i], frame, smp)]]
    IN  SortDesc(w, [i \in 1 .. Len(w) |-> w[i].population])

\* ------------------------------------------------- text (data_ntd.py)

\* A string is a sequence of symbols: a word, a blank " ", or one of the
\* punctuation marks "-", "/" and ",". "" is the empty sequence.
EmptyStr == << >>

Lower(w) ==
    CASE w = "Dallas" -> "dallas"
      [] w = "Fort Worth" -> "fort worth"
      [] w = "Arlington" -> "arlington"
      [] w = "Springfield" -> "springfield"
      [] w = "Kansas City" -> "kansas city"
      [] w = "TX" -> "tx"
      [] w = "MO" -> "mo"
      [] w = "IL" -> "il"
      [] w = "KS" -> "ks"
      [] w = "Non" -> "non"
      [] w = "NON" -> "non"
      [] w = "UZA" -> "uza"
      [] w = "Texas" -> "texas"
      [] w = "Metro Area" -> "metro area"
      [] w = "Micro Area" -> "micro area"
      [] OTHER -> w

Upper(w) ==
    CASE Lower(w) = "dallas" -> "DALLAS"
      [] Lower(w) = "fort worth" -> "FORT WORTH"
      [] Lower(w) = "arlington" -> "ARLINGTON"
      [] Lower(w) = "springfield" -> "SPRINGFIELD"
      [] Lower(w) = "kansas city" -> "KANSAS CITY"
      [] Lower(w) = "tx" -> "TX"
      [] Lower(w) = "mo" -> "MO"
      [] Lower(w) = "il" -> "IL"
      [] Lower(w) = "ks" -> "KS"
      [] Lower(w) = "non" -> "NON"
      [] Lower(w) = "uza" -> "UZA"
      [] Lower(w) = "texas" -> "TEXAS"
      [] Lower(w) = "metro area" -> "METRO AREA"
      [] Lower(w) = "micro area" -> "MICRO AREA"
      [] OTHER -> w

\* str.lower() and str.upper()
LowerStr(t) == [i \in 1 .. Len(t) |-> Lower(t[i])]
UpperStr(t) == [i \in 1 .. Len(t) |-> Upper(t[i])]

\* str.strip()
RECURSIVE LStrip(_)
LStrip(t) == IF t # << >> /\ Head(t) = " " THEN LStrip(Tail(t)) ELSE t

RECURSIVE RStrip(_)
RStrip(t) ==
    IF t # << >> /\ t[Len(t)] = " " THEN RStrip(SubSeq(t, 1, Len(t) - 1)) ELSE t

Strip(t) == RStrip(LStrip(t))

\* `needle in t`
Contains(t, needle) ==
    \E i \in 0 .. Len(t) - Len(needle) :
        SubSeq(t, i + 1, i + Len(needle)) = needle

\* str.split(",") and re.split(r"[-/]", t): a cut at every symbol of delims
RECURSIVE SplitAcc(_, _, _)
SplitAcc(t, delims, cur) ==
    IF t = << >> THEN << cur >>
    ELSE IF Head(t) \in delims
         THEN << cur >> \o SplitAcc(Tail(t), delims, << >>)
         ELSE SplitAcc(Tail(t), delims, Append(cur, Head(t)))

SplitOn(t, delims) == SplitAcc(t, delims, << >>)

\* re.split(r"--|/", t): a cut at every "--" and every "/"; a single "-"
\* stays in its piece
RECURSIVE SplitUzaAcc(_, _)
SplitUzaAcc(t, cur) ==
    IF t = << >> THEN << cur >>
    ELSE IF Len(t) >= 2 /\ t[1] = "-" /\ t[2] = "-"
         THEN << cur >> \o SplitUzaAcc(Tail(Tail(t)), << >>)
         ELSE IF Head(t) = "/"
              THEN << cur >> \o SplitUzaAcc(Tail(t), << >>)
              ELSE SplitUzaAcc(Tail(t), Append(cur, Head(t)))

SplitUza(t) == SplitUzaAcc(t, << >>)

\* re.sub(r"\s*Metro(politan)?\s*Area$", "", name)
StripMetroSuffix(name) ==
    IF name # << >> /\ name[Len(name)] = "Metro Area"
    THEN RStrip(SubSeq(name, 1, Len(name) - 1))
    ELSE name

\* str.contains("Metro", case=False)
ContainsMetro(name) == \E i \in 1 .. Len(name) : Lower(name[i]) = "metro area"

MapSeq(ts, Op(_)) == [i \in 1 .. Len(ts) |-> Op(ts[i])]

\* ------------------------------------------------- _build_uza_cbsa_map

\* the city tokens kept in the case of the name
CitiesOf_no_lower(city_part) ==
    MapSeq(SplitOn(city_part, {"-", "/"}), LAMBDA c : Strip(c))

CitiesOf(city_part) ==
    MapSeq(SplitOn(city_part, {"-", "/"}), LAMBDA c : LowerStr(Strip(c)))

parse_msa(msa_name) ==
    LET clean == StripMetroSuffix(msa_name)
        parts == SplitOn(clean, {","})
        city_part == Strip(parts[1])
        state_part == IF Len(parts) > 1 THEN Strip(parts[2]) ELSE EmptyStr
    IN  [cities |-> CitiesOf(city_part),
         states |-> MapSeq(SplitOn(state_part, {"-", "/"}),
                           LAMBDA t : UpperStr(Strip(t)))]

\* dict.setdefault(key, value)
SetDefault(d, key, value) ==
    IF key \in DOMAIN d THEN d
    ELSE [k \in DOMAIN d \cup {key} |-> IF k = key THEN value ELSE d[k]]

\* d[key] = value
Put(d, key, value) ==
    [k \in DOMAIN d \cup {key} |-> IF k = key THEN value ELSE d[k]]

\* del d[key]
Del(d, key) == [k \in DOMAIN d \ {key} |-> d[k]]

\* city_state_idx.setdefault((city, state), cbsa) for state in states
RECURSIVE AddStates(_, _, _, _)
AddStates(idx, city, states, cbsa) ==
    IF states = << >> THEN idx
    ELSE AddStates(SetDefault(idx, << city, Head(states) >>, cbsa),
                   city, Tail(states), cbsa)

\* the bookkeeping without `del city_only[city]`
UpdateCity_no_del(only, ambig, city, cbsa) ==
    IF city \in ambig THEN [only |-> only, ambig |-> ambig]
    ELSE IF city \in DOMAIN only /\ only[city] # cbsa
         THEN [only |-> only, ambig |-> ambig \cup {city}]
         ELSE [only |-> Put(only, city, cbsa), ambig |-> ambig]

\* the city-only bookkeeping of one city of one row
UpdateCity(only, ambig, city, cbsa) ==
    IF city \in ambig THEN [only |-> only, ambig |-> ambig]
    ELSE IF city \in DOMAIN only /\ only[city] # cbsa
         THEN [only |-> Del(only, city), ambig |-> ambig \cup {city}]
         ELSE [only |-> Put(only, city, cbsa), ambig |-> ambig]

\* the body of `for city in cities` over the cities of one row
RECURSIVE AddCities(_, _, _, _)
AddCities(ix, cities, states, cbsa) ==
    IF cities = << >> THEN ix
    ELSE LET city == Head(cities)
             u == UpdateCity(ix.only, ix.ambig, city, cbsa)
         IN  AddCities([city_state |-> AddStates(ix.city_state, city, states, cbsa),
                        only |-> u.only, ambig |-> u.ambig],
                       Tail(cities), states, cbsa)

\* ------------------------------------------------------------ _uza_to_cbsa

\* not uza_name or pd.isna(uza_name)
IsMissing(u) == u.kind # "str" \/ u.text = EmptyStr

\* the sentinel test without lower()
IsNonUza_case_sensitive(u) == Contains(u.text, << "non", "-", "uza" >>)

\* "non-uza" in uza_name.lower()
IsNonUza(u) == Contains(LowerStr(u.text), << "non", "-", "uza" >>)

UzaCities(text) ==
    LET parts == SplitOn(text, {","})
    IN  MapSeq(SplitUza(Strip(parts[1])), LAMBDA c : LowerStr(Strip(c)))

UzaStates(text) ==
    LET parts == SplitOn(text, {","})
        state_part == IF Len(parts) > 1 THEN Strip(parts[2]) ELSE EmptyStr
    IN  MapSeq(SelectSeq(SplitOn(state_part, {"-", "/"}),
                         LAMBDA t : Strip(t) # EmptyStr),
               LAMBDA t : UpperStr(Strip(t)))

\* the (city, state) pairs in the order the nested loops probe them
Pairs(cities, states) ==
    [k \in 1 .. Len(cities) * Len(states) |->
        << cities[((k - 1) \div Len(states)) + 1],
           states[((k - 1) % Len(states)) + 1] >>]

\* first element of a sequence of keys that d maps to a non-empty value
FirstHit(keys, d) ==
    LET hits == { i \in 1 .. Len(keys) :
                     keys[i] \in DOMAIN d /\ d[keys[i]] # EmptyStr }
    IN  IF hits = {} THEN 0 ELSE CHOOSE i \in hits : \A j \in hits : i <= j

\* the probes with the city-only table consulted before the exact table
Lookup_city_only_first(idx, text) ==
    LET cities == UzaCities(text)
        pairs == Pairs(cities, UzaStates(text))
        e == FirstHit(pairs, idx.city_state)
        c == FirstHit(cities, idx.city_only)
    IN  IF c # 0 THEN [cbsa |-> idx.city_only[cities[c]], via |-> "city_only"]
        ELSE IF e # 0 THEN [cbsa |-> idx.city_state[pairs[e]], via |-> "city_state"]
        ELSE [cbsa |-> EmptyStr, via |-> "none"]

\* lines 178-198: the probes of a built index
Lookup(idx, text) ==
    LET cities == UzaCities(text)
        pairs == Pairs(cities, UzaStates(text))
        e == FirstHit(pairs, idx.city_state)
        c == FirstHit(cities, idx.city_only)
    IN  IF e # 0 THEN [cbsa |-> idx.city_state[pairs[e]], via |-> "city_state"]
        ELSE IF c # 0 THEN [cbsa |-> idx.city_only[cities[c]], via |-> "city_only"]
        ELSE [cbsa |-> EmptyStr, via |-> "none"]

\* --------------------------------------------------------------------- Init

\* the resolver before the first call of _uza_to_cbsa in a process
NoCache == [state |-> "None", city_state |-> << >>, city_only |-> << >>]
\* a failed fetch that leaves the cache unset
EmptyCache_not_cached == [state |-> "None", city_state |-> << >>, city_only |-> << >>]

EmptyCache == [state |-> "empty", city_state |-> << >>, city_only |-> << >>]
NoCall == [kind |-> "none", text |-> EmptyStr]

ResolverStart ==
    /\ UZA_CBSA_CACHE = NoCache
    /\ rpc = "idle"
    /\ census = << >>
    /\ build_pos = 0
    /\ city_state_idx = << >>
    /\ city_only = << >>
    /\ city_ambig = {}
    /\ uza_name = NoCall
    /\ result = EmptyStr
    /\ fetches = 0
    /\ builds = 0
    /\ calls = 0

\* steps 2 and 3 of run_sampling.main before they start
AggregatorStart ==
    /\ ntd_rows = << >>
    /\ gbfs_rows = << >>
    /\ agencies = << >>
    /\ agency_agg = << >>
    /\ systems = << >>
    /\ gbfs_agg = << >>
    /\ apc = "load_ntd"

Universes ==
    UNION { [1 .. n -> RegionKinds] : n \in 0 .. MaxRegions }

\* the frame of a universe: region i has cbsa_code i
FrameOf(u) ==
    [i \in 1 .. Len(u) |->
        [cbsa_code |-> i,
         population |-> u[i].population,
         has_rail |-> u[i].has_rail,
         has_shared_mobility |-> FALSE,
         census_region |-> "South"]]

NoChange == [kind |-> "none", stratum |-> << >>, before |-> << >>]

NoFirst ==
    [msa_df |-> << >>, sample |-> << >>, remaining_pool |-> << >>,
     strata |-> << >>, allocation |-> << >>, picked |-> << >>, error |-> ""]

\* the state of one call of select_sample before its first statement
Entry ==
    /\ pc = "assign"
    /\ df = << >>
    /\ total_pop = 0
    /\ mandatory = << >>
    /\ remaining_pool = << >>
    /\ slots_left = 0
    /\ strata = << >>
    /\ stratum_counts = << >>
    /\ allocation = << >>
    /\ iter = 0
    /\ candidates = << >>
    /\ loop_exit = "none"
    /\ last_change = NoChange
    /\ rng_calls = 0
    /\ draw_idx = 1
    /\ picked = << >>
    /\ sampled = << >>
    /\ sample = << >>
    /\ pop_coverage = << 0, 0 >>
    /\ needed = << >>
    /\ topup_log = << >>
    /\ error = ""

\* a universe of four regions, one per population bucket, largest first,
\* with any rail flags
FourBucketUniverses ==
    { [i \in 1 .. 4 |->
          [population |-> << 10000000, 2000000, 600000, 100000 >>[i],
           has_rail |-> rail[i]]] : rail \in [1 .. 4 -> BOOLEAN] }

\* a universe of nine regions in five strata, largest first: one stratum of
\* five regions and four strata of one region each
SkewedUniverse ==
    << [population |-> 2000000, has_rail |-> FALSE],
       [population |-> 600000,  has_rail |-> FALSE],
       [population |-> 600000,  has_rail |-> TRUE],
       [population |-> 300000,  has_rail |-> TRUE],
       [population |-> 300000,  has_rail |-> FALSE],
       [population |-> 300000,  has_rail |-> FALSE],
       [population |-> 300000,  has_rail |-> FALSE],
       [population |-> 300000,  has_rail |-> FALSE],
       [population |-> 300000,  has_rail |-> FALSE] >>

\* values of TARGET_SAMPLE_SIZE tried on the universe of nine regions
SkewedTargets == {4, 5}

\* the frames and configurations select_sample is called with
Inputs ==
    { [frame |-> FrameOf(u), top_n |-> n, target |-> t, max_size |-> m] :
        u \in Universes \cup FourBucketUniverses,
        n \in TopNValues, t \in TargetValues, m \in MaxSizeValues }
    \cup
    { [frame |-> FrameOf(SkewedUniverse), top_n |-> 0, target |-> t, max_size |-> m] :
        t \in SkewedTargets, m \in MaxSizeValues }

Init ==
    /\ \E in \in Inputs :
          /\ msa_df = in.frame
          /\ TOP_N_MANDATORY = in.top_n
          /\ TARGET_SAMPLE_SIZE = in.target
          /\ MAX_SAMPLE_SIZE = in.max_size
    /\ pop_dtype \in (IF msa_df = << >> THEN {"int64", "object"} ELSE {"int64"})
    /\ rng_stream = << >>
    /\ run = 1
    /\ first = NoFirst
    /\ Entry
    /\ api_rows = << >>
    /\ ResolverStart
    /\ AggregatorStart

cfgVars == << TOP_N_MANDATORY, TARGET_SAMPLE_SIZE, MAX_SAMPLE_SIZE >>
runVars == << run, first >>
inVars == << msa_df, pop_dtype, cfgVars, runVars, resolverVars, aggVars >>
frameVars == << df, total_pop, mandatory, remaining_pool, slots_left >>
allocVars == << strata, stratum_counts, allocation >>
loopVars == << iter, candidates, loop_exit, last_change >>
rngVars == << rng_calls, rng_stream >>
drawVars == << draw_idx, picked, sampled >>
topVars == << sample, pop_coverage, needed, topup_log >>

\* ------------------------------------------------- select_sample, step by step

\* df = assign_strata(msa_df); total_pop = df["population"].sum()
AssignStrata ==
    /\ pc = "assign"
    /\ df' = assign_strata(msa_df)
    /\ total_pop' = SumPop(msa_df)
    /\ pc' = "mandatory"
    /\ UNCHANGED << inVars, mandatory, remaining_pool, slots_left, allocVars,
                    loopVars, rngVars, drawVars, topVars, error >>

\* 1. and 2.: the mandatory rows, the remaining pool, slots_left
MandatoryPhase ==
    /\ pc = "mandatory"
    /\ mandatory' = HeadRows(df, TOP_N_MANDATORY)
    /\ remaining_pool' = TailRows(df, TOP_N_MANDATORY)
    /\ slots_left' = SlotsLeft(TARGET_SAMPLE_SIZE, Len(HeadRows(df, TOP_N_MANDATORY)))
    /\ pc' = "allocate"
    /\ UNCHANGED << inVars, df, total_pop, allocVars, loopVars, rngVars,
                    drawVars, topVars, error >>

\* rng, stratum_counts and the initial proportional allocation
InitialAllocation ==
    /\ pc = "allocate"
    /\ LET keys == value_counts(remaining_pool)
           counts == [s \in Range(keys) |-> CountOf(remaining_pool, s)]
       IN  /\ strata' = keys
           /\ stratum_counts' = counts
           /\ allocation' =
                  [s \in Range(keys) |->
                      InitialShare(slots_left, counts[s], Len(remaining_pool),
                                   Len(keys))]
           /\ picked' = [s \in Range(keys) |-> << >>]
    /\ rng_calls' = default_rng(rng_calls)
    /\ iter' = 0
    /\ pc' = "loop"
    /\ UNCHANGED << inVars, frameVars, candidates, loop_exit, last_change,
                    rng_stream, draw_idx, sampled, topVars, error >>

\* range(100) is exhausted: the loop ends without a break
LoopExhausted ==
    /\ pc = "loop"
    /\ iter = LoopBound
    /\ loop_exit' = "bound"
    /\ pc' = "draw"
    /\ UNCHANGED << inVars, frameVars, allocVars, iter, candidates, last_change,
                    rngVars, drawVars, topVars, error >>

\* total == slots_left: break
LoopConverged ==
    /\ pc = "loop"
    /\ iter < LoopBound
    /\ SumAlloc(allocation, strata) = slots_left
    /\ loop_exit' = "converged"
    /\ pc' = "draw"
    /\ UNCHANGED << inVars, frameVars, allocVars, iter, candidates, last_change,
                    rngVars, drawVars, topVars, error >>

\* total > slots_left: the removal pass starts
BeginRemove ==
    /\ pc = "loop"
    /\ iter < LoopBound
    /\ SumAlloc(allocation, strata) > slots_left
    /\ \E s \in Range(strata) : allocation[s] > 0
    /\ candidates' = Removable(RemoveCandidates(allocation, strata),
                               allocation, strata, slots_left)
    /\ pc' = "remove"
    /\ UNCHANGED << inVars, frameVars, allocVars, iter, loop_exit, last_change,
                    rngVars, drawVars, topVars, error >>

\* total > slots_left and no allocation is positive: the pass changes nothing
IdleRemovePass ==
    /\ pc = "loop"
    /\ iter < LoopBound
    /\ SumAlloc(allocation, strata) > slots_left
    /\ \A s \in Range(strata) : allocation[s] = 0
    /\ iter' = iter + 1
    /\ UNCHANGED << inVars, frameVars, allocVars, candidates, loop_exit,
                    last_change, rngVars, drawVars, topVars, error, pc >>

\* allocation[s] -= 1 for the next candidate that passes the test; the pass
\* ends when no later candidate passes it
RemoveStep ==
    /\ pc = "remove"
    /\ candidates # << >>
    /\ LET s == Head(candidates)
           alloc == [allocation EXCEPT ![s] = @ - 1]
           rest == Removable(Tail(candidates), alloc, strata, slots_left)
       IN  /\ allocation' = alloc
           /\ last_change' = [kind |-> "dec", stratum |-> s, before |-> allocation]
           /\ candidates' = rest
           /\ IF rest = << >>
              THEN iter' = iter + 1 /\ pc' = "loop"
              ELSE iter' = iter /\ pc' = "remove"
    /\ UNCHANGED << inVars, frameVars, strata, stratum_counts, loop_exit,
                    rngVars, drawVars, topVars, error >>

\* total < slots_left and some stratum has room: the addition pass starts
BeginAdd ==
    /\ pc = "loop"
    /\ iter < LoopBound
    /\ SumAlloc(allocation, strata) < slots_left
    /\ AddCandidates(allocation, stratum_counts, strata) # << >>
    /\ candidates' = AddCandidates(allocation, stratum_counts, strata)
    /\ pc' = "add"
    /\ UNCHANGED << inVars, frameVars, allocVars, iter, loop_exit, last_change,
                    rngVars, drawVars, topVars, error >>

\* total < slots_left and no stratum has room: break
EarlyStop ==
    /\ pc = "loop"
    /\ iter < LoopBound
    /\ SumAlloc(allocation, strata) < slots_left
    /\ AddCandidates(allocation, stratum_counts, strata) = << >>
    /\ loop_exit' = "early_stop"
    /\ pc' = "draw"
    /\ UNCHANGED << inVars, frameVars, allocVars, iter, candidates, last_change,
                    rngVars, drawVars, topVars, error >>

\* allocation[s] += 1 for the next candidate; the pass ends at the break
\* (sum >= slots_left) or with the last candidate
AddStep ==
    /\ pc = "add"
    /\ candidates # << >>
    /\ LET s == Head(candidates)
           alloc == [allocation EXCEPT ![s] = @ + 1]
           rest == IF SumAlloc(alloc, strata) >= slots_left
                   THEN << >> ELSE Tail(candidates)
       IN  /\ allocation' = alloc
           /\ last_change' = [kind |-> "inc", stratum |-> s, before |-> allocation]
           /\ candidates' = rest
           /\ IF rest = << >>
              THEN iter' = iter + 1 /\ pc' = "loop"
              ELSE iter' = iter /\ pc' = "add"
    /\ UNCHANGED << inVars, frameVars, strata, stratum_counts, loop_exit,
                    rngVars, drawVars, topVars, error >>

\* n_pick = min(n_pick, len(pool)) of the entry of allocation.items() under draw
NPick(s) == Min2(allocation[s], Len(PoolOf(remaining_pool, s)))

\* an entry with n_pick > 0: one rng.integers(1e9) and one pool.sample
DrawStratum ==
    /\ pc = "draw"
    /\ draw_idx <= Len(strata)
    /\ NPick(strata[draw_idx]) > 0
    /\ LET s == strata[draw_idx]
           k == rng_calls + 1
       IN  \E rs \in RngValues :
              /\ IF k <= Len(rng_stream)
                 THEN rs = rng_stream[k] /\ rng_stream' = rng_stream
                 ELSE rng_stream' = Append(rng_stream, rs)
              /\ rng_calls' = k
              /\ picked' = [picked EXCEPT
                               ![s] = PoolSample(PoolOf(remaining_pool, s), NPick(s), rs)]
              /\ sampled' = sampled \o PoolSample(PoolOf(remaining_pool, s), NPick(s), rs)
    /\ draw_idx' = draw_idx + 1
    /\ UNCHANGED << inVars, frameVars, allocVars, loopVars, topVars, error, pc >>

\* an entry with n_pick = 0: nothing is drawn and rng is not advanced
SkipStratum ==
    /\ pc = "draw"
    /\ draw_idx <= Len(strata)
    /\ NPick(strata[draw_idx]) = 0
    /\ draw_idx' = draw_idx + 1
    /\ UNCHANGED << inVars, frameVars, allocVars, loopVars, rngVars, picked,
                    sampled, topVars, error, pc >>

\* 3. Combine, and the first pop_coverage. With an empty frame both sums are
\* 0: the division gives nan on numpy integers and raises ZeroDivisionError
\* on the Python integers the sum of an empty object column is.
Combine ==
    /\ pc = "draw"
    /\ draw_idx > Len(strata)
    /\ LET smp == Tag(mandatory, "mandatory_top10") \o Tag(sampled, "stratified_random")
           cov == Coverage(smp, total_pop)
       IN  /\ sample' = smp
           /\ pop_coverage' = cov
           /\ IF df = << >> /\ pop_dtype = "object"
              THEN /\ error' = "ZeroDivisionError"
                   /\ needed' = needed
                   /\ pc' = "raised"
              ELSE /\ error' = ""
                   /\ IF BelowTarget(cov)
                      THEN needed' = Needed(df, smp) /\ pc' = "topup"
                      ELSE needed' = needed /\ pc' = "weights"
    /\ UNCHANGED << inVars, frameVars, allocVars, loopVars, rngVars, drawVars,
                    topup_log >>

\* one iteration of `for _, row in needed.iterrows()` that adds the row
TopUpAdd ==
    /\ pc = "topup"
    /\ needed # << >>
    /\ Len(sample) < MAX_SAMPLE_SIZE
    /\ LET smp == sample \o Tag(<< Head(needed) >>, "coverage_boost")
           cov == Coverage(smp, total_pop)
       IN  /\ sample' = smp
           /\ pop_coverage' = cov
           /\ topup_log' = Append(topup_log,
                  [size_before |-> Len(sample), before |-> pop_coverage,
                   after |-> cov])
           /\ IF BelowTarget(cov)
              THEN needed' = Tail(needed) /\ pc' = "topup"
              ELSE needed' = needed /\ pc' = "weights"
    /\ UNCHANGED << inVars, frameVars, allocVars, loopVars, rngVars, drawVars, error >>

\* the top-up loop ends: len(sample) >= MAX_SAMPLE_SIZE, or no row is left
TopUpStop ==
    /\ pc = "topup"
    /\ needed = << >> \/ Len(sample) >= MAX_SAMPLE_SIZE
    /\ pc' = "weights"
    /\ UNCHANGED << inVars, frameVars, allocVars, loopVars, rngVars, drawVars,
                    topVars, error >>

\* 5. the sample weights and the final sort; select_sample returns
ComputeWeights ==
    /\ pc = "weights"
    /\ sample' = WithWeights(df, sample)
    /\ pc' = "done"
    /\ UNCHANGED << inVars, frameVars, allocVars, loopVars, rngVars, drawVars,
                    pop_coverage, needed, topup_log, error >>

\* ----------------------------------------------------- a second call

\* the rows of a frame, rotated by k
Rotate(rows, k) ==
    [i \in 1 .. Len(rows) |-> rows[((i - 1 + k) % Len(rows)) + 1]]

Outcome ==
    [msa_df |-> msa_df, sample |-> sample, remaining_pool |-> remaining_pool,
     strata |-> strata, allocation |-> allocation, picked |-> picked,
     error |-> error]

Restart(frame) ==
    /\ run = 1
    /\ pc \in {"done", "raised"}
    /\ first' = Outcome
    /\ run' = 2
    /\ msa_df' = frame
    /\ pc' = "assign"
    /\ df' = << >>
    /\ total_pop' = 0
    /\ mandatory' = << >>
    /\ remaining_pool' = << >>
    /\ slots_left' = 0
    /\ strata' = << >>
    /\ stratum_counts' = << >>
    /\ allocation' = << >>
    /\ iter' = 0
    /\ candidates' = << >>
    /\ loop_exit' = "none"
    /\ last_change' = NoChange
    /\ draw_idx' = 1
    /\ picked' = << >>
    /\ sampled' = << >>
    /\ sample' = << >>
    /\ pop_coverage' = << 0, 0 >>
    /\ needed' = << >>
    /\ topup_log' = << >>
    /\ error' = ""
    /\ UNCHANGED << pop_dtype, cfgVars, rng_calls, rng_stream, resolverVars, aggVars >>

\* select_sample is called again on the same frame, in the same process or
\* in another one with the same RANDOM_SEED
RunAgain == Restart(msa_df)

\* select_sample is called again on the same rows in another order
RunReordered ==
    \E k \in 1 .. Len(msa_df) - 1 : Restart(Rotate(msa_df, k))

Next ==
    \/ AssignStrata
    \/ MandatoryPhase
    \/ InitialAllocation
    \/ LoopExhausted
    \/ LoopConverged
    \/ BeginRemove
    \/ IdleRemovePass
    \/ RemoveStep
    \/ BeginAdd
    \/ EarlyStop
    \/ AddStep
    \/ DrawStratum
    \/ SkipStratum
    \/ Combine
    \/ TopUpAdd
    \/ TopUpStop
    \/ ComputeWeights
    \/ RunAgain
    \/ RunReordered

Spec == Init /\ [][Next]_vars

\* ------------------------------------------------------------ the resolver

\* the Census answers: rows of distinct names, the region of row i has code <<i>>
ApiAnswers ==
    { r \in UNION { [1 .. n -> ApiNames] : n \in 0 .. MaxRows } :
        \A i, j \in 1 .. Len(r) : i # j => r[i] # r[j] }

ApiFrame(r) == [i \in 1 .. Len(r) |-> [NAME |-> r[i], cbsa_code |-> << i >>]]

\* the name of a region as the universe carries it (data_census strips the
\* " Metro Area" suffix)
CanonicalName(row) == StripMetroSuffix(row.NAME)

\* the rows of the Census answer that are metropolitan areas
MetroRows(rows) == SelectSeq(rows, LAMBDA r : ContainsMetro(r.NAME))

UzaInputs ==
    { [kind |-> "None", text |-> EmptyStr], [kind |-> "nan", text |-> EmptyStr] }
    \cup { [kind |-> "str", text |-> t] : t \in UzaTexts }
    \cup { [kind |-> "str", text |-> StripMetroSuffix(n)] : n \in ApiNames }

InitResolver ==
    /\ msa_df = << >>
    /\ pop_dtype = "int64"
    /\ TOP_N_MANDATORY = 0
    /\ TARGET_SAMPLE_SIZE = 0
    /\ MAX_SAMPLE_SIZE = 0
    /\ rng_stream = << >>
    /\ run = 1
    /\ first = NoFirst
    /\ Entry
    /\ \E r \in ApiAnswers : api_rows = ApiFrame(r)
    /\ ResolverStart
    /\ AggregatorStart

\* the index as _UZA_CBSA_CACHE holds it
BuiltCache ==
    [state |-> "built", city_state |-> city_state_idx, city_only |-> city_only]

\* _uza_to_cbsa returns "" before it looks at the index
ResolveEarly ==
    /\ rpc = "idle"
    /\ calls < MaxCalls
    /\ calls' = calls + 1
    /\ \E u \in UzaInputs :
          /\ IsMissing(u) \/ IsNonUza(u)
          /\ uza_name' = u
          /\ result' = EmptyStr
    /\ UNCHANGED << samplerVars, aggVars, api_rows, UZA_CBSA_CACHE, rpc, census,
                    build_pos, city_state_idx, city_only, city_ambig, fetches,
                    builds >>

\* the cache is set: _build_uza_cbsa_map returns it; an empty index gives ""
ResolveCached ==
    /\ rpc = "idle"
    /\ calls < MaxCalls
    /\ calls' = calls + 1
    /\ UZA_CBSA_CACHE.state # "None"
    /\ \E u \in UzaInputs :
          /\ ~ (IsMissing(u) \/ IsNonUza(u))
          /\ uza_name' = u
          /\ result' = IF UZA_CBSA_CACHE.state = "empty" THEN EmptyStr
                       ELSE Lookup(UZA_CBSA_CACHE, u.text).cbsa
    /\ UNCHANGED << samplerVars, aggVars, api_rows, UZA_CBSA_CACHE, rpc, census,
                    build_pos, city_state_idx, city_only, city_ambig, fetches,
                    builds >>

\* no cache yet and the Census request fails: the cache becomes {}
FetchFails ==
    /\ rpc = "idle"
    /\ calls < MaxCalls
    /\ calls' = calls + 1
    /\ UZA_CBSA_CACHE.state = "None"
    /\ \E u \in UzaInputs :
          /\ ~ (IsMissing(u) \/ IsNonUza(u))
          /\ uza_name' = u
    /\ fetches' = fetches + 1
    /\ UZA_CBSA_CACHE' = EmptyCache
    /\ result' = EmptyStr
    /\ UNCHANGED << samplerVars, aggVars, api_rows, rpc, census, build_pos,
                    city_state_idx, city_only, city_ambig, builds >>

\* no cache yet and the Census request succeeds: the build starts
FetchSucceeds ==
    /\ rpc = "idle"
    /\ calls < MaxCalls
    /\ calls' = calls + 1
    /\ UZA_CBSA_CACHE.state = "None"
    /\ \E u \in UzaInputs :
          /\ ~ (IsMissing(u) \/ IsNonUza(u))
          /\ uza_name' = u
    /\ fetches' = fetches + 1
    /\ census' = MetroRows(api_rows)
    /\ build_pos' = 0
    /\ city_state_idx' = << >>
    /\ city_only' = << >>
    /\ city_ambig' = {}
    /\ rpc' = "build"
    /\ UNCHANGED << samplerVars, aggVars, api_rows, UZA_CBSA_CACHE, result, builds >>

\* one iteration of `for _, row in census.iterrows()`
BuildRow ==
    /\ rpc = "build"
    /\ build_pos < Len(census)
    /\ LET row == census[build_pos + 1]
           p == parse_msa(row.NAME)
           ix == AddCities([city_state |-> city_state_idx, only |-> city_only,
                            ambig |-> city_ambig],
                           p.cities, p.states, row.cbsa_code)
       IN  /\ city_state_idx' = ix.city_state
           /\ city_only' = ix.only
           /\ city_ambig' = ix.ambig
    /\ build_pos' = build_pos + 1
    /\ UNCHANGED << samplerVars, aggVars, api_rows, UZA_CBSA_CACHE, rpc, census,
                    uza_name, result, fetches, builds, calls >>

\* the index is cached and the call that built it probes it
BuildDone ==
    /\ rpc = "build"
    /\ build_pos = Len(census)
    /\ UZA_CBSA_CACHE' = BuiltCache
    /\ builds' = builds + 1
    /\ result' = Lookup(BuiltCache, uza_name.text).cbsa
    /\ rpc' = "idle"
    /\ UNCHANGED << samplerVars, aggVars, api_rows, census, build_pos, city_state_idx,
                    city_only, city_ambig, uza_name, fetches, calls >>

NextResolver ==
    \/ ResolveEarly
    \/ ResolveCached
    \/ FetchFails
    \/ FetchSucceeds
    \/ BuildRow
    \/ BuildDone

SpecResolver == InitResolver /\ [][NextResolver]_vars

\* ------------------------------------------------- assign_strata on its own

BoundaryFrames ==
    UNION { [1 .. n -> BoundaryPops \X BOOLEAN] : n \in 1 .. MaxBoundaryRows }

InitStrata ==
    /\ \E u \in BoundaryFrames :
          msa_df = [i \in 1 .. Len(u) |->
                       [cbsa_code |-> i,
                        population |-> u[i][1],
                        has_rail |-> u[i][2],
                        has_shared_mobility |-> FALSE,
                        census_region |-> "South"]]
    /\ pop_dtype = "int64"
    /\ TOP_N_MANDATORY = 0
    /\ TARGET_SAMPLE_SIZE = 0
    /\ MAX_SAMPLE_SIZE = 0
    /\ rng_stream = << >>
    /\ run = 1
    /\ first = NoFirst
    /\ Entry
    /\ api_rows = << >>
    /\ ResolverStart
    /\ AggregatorStart

SpecStrata == InitStrata /\ [][AssignStrata]_vars

\* ------------------------------------------------------- the aggregators

\* the Census answer the index of this run is built from
AggregateCensus ==
    << [NAME |-> << "Dallas", "-", "Fort Worth", "-", "Arlington", ",", " ", "TX", " ", "Metro Area" >>,
        cbsa_code |-> << "19100" >>],
       [NAME |-> << "Kansas City", ",", " ", "MO", "-", "KS", " ", "Metro Area" >>,
        cbsa_code |-> << "28140" >>],
       [NAME |-> << "Springfield", ",", " ", "MO", " ", "Metro Area" >>,
        cbsa_code |-> << "44180" >>],
       [NAME |-> << "Springfield", ",", " ", "IL", " ", "Metro Area" >>,
        cbsa_code |-> << "44100" >>] >>

\* rows of the NTD agency file: agency_name ("" when the cell is empty) and
\* uza_name
NtdRowKinds ==
    { [agency_name |-> "DART",
       uza_name |-> [kind |-> "str",
                     text |-> << "Dallas", "-", "-", "Fort Worth", ",", " ", "TX" >>]],
      [agency_name |-> "Trinity Metro",
       uza_name |-> [kind |-> "str",
                     text |-> << "Dallas", "-", "-", "Fort Worth", ",", " ", "TX" >>]],
      [agency_name |-> "KCATA",
       uza_name |-> [kind |-> "str", text |-> << "Kansas City", ",", " ", "KS" >>]],
      [agency_name |-> "City Utilities",
       uza_name |-> [kind |-> "str", text |-> << "Springfield" >>]],
      [agency_name |-> "Rural Transit",
       uza_name |-> [kind |-> "str", text |-> << "Texas", " ", "Non", "-", "UZA" >>]],
      [agency_name |-> "Tribal Transit",
       uza_name |-> [kind |-> "nan", text |-> EmptyStr]],
      [agency_name |-> "",
       uza_name |-> [kind |-> "str",
                     text |-> << "Dallas", "-", "-", "Fort Worth", ",", " ", "TX" >>]] }

\* rows of the GBFS systems catalog
GbfsRowKinds ==
    { [name |-> "Lime", location |-> << "Dallas", ",", " ", "TX" >>, country_code |-> "US"],
      [name |-> "Bird", location |-> << "Fort Worth", ",", " ", "TX" >>, country_code |-> "US"],
      [name |-> "Lime", location |-> << "Springfield", ",", " ", "MO" >>, country_code |-> "US"],
      [name |-> "Lime", location |-> << "Dallas", ",", " ", "TX" >>, country_code |-> "FR"] }

\* _builtin_agencies(), three of its rows
BuiltinAgencies ==
    << [agency_name |-> "DART", cbsa_code |-> << "19100" >>, has_rail |-> TRUE],
       [agency_name |-> "Trinity Metro", cbsa_code |-> << "19100" >>, has_rail |-> TRUE],
       [agency_name |-> "KCATA", cbsa_code |-> << "28140" >>, has_rail |-> FALSE] >>

\* _builtin_gbfs(), two of its rows
BuiltinGbfs ==
    << [name |-> "Citi Bike", location |-> << "New York", ",", " ", "US" >>,
        cbsa_code |-> << "35620" >>],
       [name |-> "Divvy", location |-> << "Chicago", ",", " ", "US" >>,
        cbsa_code |-> << "16980" >>] >>

\* _CITY_CBSA, three of its entries in the order of the dict
CITY_CBSA ==
    << [fragment |-> << "dallas" >>, cbsa |-> << "19100" >>],
       [fragment |-> << "fort worth" >>, cbsa |-> << "19100" >>],
       [fragment |-> << "kansas city" >>, cbsa |-> << "28140" >>] >>

\* the index _build_uza_cbsa_map builds from the rows of a Census answer
RECURSIVE BuildIndex(_, _)
BuildIndex(rows, ix) ==
    IF rows = << >> THEN ix
    ELSE LET p == parse_msa(Head(rows).NAME)
         IN  BuildIndex(Tail(rows),
                        AddCities(ix, p.cities, p.states, Head(rows).cbsa_code))

IndexOf(rows) ==
    LET ix == BuildIndex(MetroRows(rows),
                         [city_state |-> << >>, only |-> << >>, ambig |-> {}])
    IN  [state |-> "built", city_state |-> ix.city_state, city_only |-> ix.only]

\* _uza_to_cbsa(u) on a cache that is set
uza_to_cbsa(cache, u) ==
    IF IsMissing(u) \/ IsNonUza(u) THEN EmptyStr
    ELSE IF cache.state # "built" THEN EmptyStr
    ELSE Lookup(cache, u.text).cbsa

\* whether _uza_to_cbsa(u) reaches _build_uza_cbsa_map
NeedsIndex(u) == ~ (IsMissing(u) \/ IsNonUza(u))

\* _match_cbsa(row): the first fragment of _CITY_CBSA the text holds
match_cbsa(row) ==
    LET text == LowerStr(row.location \o << " ", row.name >>)
        hits == { i \in 1 .. Len(CITY_CBSA) : Contains(text, CITY_CBSA[i].fragment) }
    IN  IF hits = {} THEN EmptyStr
        ELSE CITY_CBSA[CHOOSE i \in hits : \A j \in hits : i <= j].cbsa

\* the distinct elements of a sequence, in order of first appearance
RECURSIVE UniqueSeq(_, _)
UniqueSeq(seq, seen) ==
    IF seq = << >> THEN << >>
    ELSE IF Head(seq) \in seen THEN UniqueSeq(Tail(seq), seen)
         ELSE << Head(seq) >> \o UniqueSeq(Tail(seq), seen \cup { Head(seq) })

\* the rows of one group of groupby("cbsa_code")
GroupOf(rows, k) == SelectSeq(rows, LAMBDA r : r.cbsa_code = k)

\* groupby("cbsa_code"): one group per value of the column, "" included
GroupKeys(rows) == { rows[i].cbsa_code : i \in 1 .. Len(rows) }

agencies_by_cbsa(rows) ==
    [k \in GroupKeys(rows) |->
        LET g == GroupOf(rows, k)
        IN  [n_agencies |-> Len(g),
             agency_list |-> [i \in 1 .. Len(g) |-> g[i].agency_name],
             has_rail |-> \E i \in 1 .. Len(g) : g[i].has_rail]]

gbfs_by_cbsa(rows) ==
    [k \in GroupKeys(rows) |->
        LET g == GroupOf(rows, k)
        IN  [n_shared_mobility |-> Len(g),
             shared_mobility_list |->
                 UniqueSeq([i \in 1 .. Len(g) |-> g[i].name], {}),
             has_shared_mobility |-> TRUE]]

resolverRest ==
    << rpc, census, build_pos, city_state_idx, city_only, city_ambig,
       uza_name, result >>

InitAggregate ==
    /\ msa_df = << >>
    /\ pop_dtype = "int64"
    /\ TOP_N_MANDATORY = 0
    /\ TARGET_SAMPLE_SIZE = 0
    /\ MAX_SAMPLE_SIZE = 0
    /\ rng_stream = << >>
    /\ run = 1
    /\ first = NoFirst
    /\ Entry
    /\ api_rows = AggregateCensus
    /\ UZA_CBSA_CACHE = NoCache
    /\ rpc = "idle"
    /\ census = << >>
    /\ build_pos = 0
    /\ city_state_idx = << >>
    /\ city_only = << >>
    /\ city_ambig = {}
    /\ uza_name = NoCall
    /\ result = EmptyStr
    /\ fetches = 0
    /\ builds = 0
    /\ calls = 0
    /\ ntd_rows \in UNION { [1 .. n -> NtdRowKinds] : n \in 0 .. MaxRecords }
    /\ gbfs_rows \in UNION { [1 .. n -> GbfsRowKinds] : n \in 0 .. MaxRecords }
    /\ agencies = << >>
    /\ agency_agg = << >>
    /\ systems = << >>
    /\ gbfs_agg = << >>
    /\ apc = "load_ntd"

\* load_ntd_agencies finds the file: _parse_ntd_file drops the rows without
\* an agency name, resolves every uza_name (the first call that needs the
\* index fetches and builds it, or caches {} when the fetch fails) and keeps
\* every row, resolved or not
ParseNtdFile ==
    /\ apc = "load_ntd"
    /\ LET named == SelectSeq(ntd_rows, LAMBDA r : r.agency_name # "")
           builds_index == \E i \in 1 .. Len(named) : NeedsIndex(named[i].uza_name)
           rail_by_cbsa == { BuiltinAgencies[i].cbsa_code :
                               i \in { j \in 1 .. Len(BuiltinAgencies) :
                                         BuiltinAgencies[j].has_rail } }
       IN  \E ok \in BOOLEAN :
              /\ builds_index \/ ok
              /\ LET cache == IF ~ builds_index THEN UZA_CBSA_CACHE
                              ELSE IF ok THEN IndexOf(api_rows) ELSE EmptyCache
                 IN  /\ UZA_CBSA_CACHE' = cache
                     /\ fetches' = IF builds_index THEN fetches + 1 ELSE fetches
                     /\ builds' = IF builds_index /\ ok THEN builds + 1 ELSE builds
                     /\ calls' = calls + Len(named)
                     /\ agencies' =
                            [i \in 1 .. Len(named) |->
                                LET c == uza_to_cbsa(cache, named[i].uza_name)
                                IN  [agency_name |-> named[i].agency_name,
                                     cbsa_code |-> c,
                                     has_rail |-> c \in rail_by_cbsa]]
    /\ apc' = "agencies_by_cbsa"
    /\ UNCHANGED << samplerVars, api_rows, resolverRest, ntd_rows, gbfs_rows,
                    agency_agg, systems, gbfs_agg >>

\* load_ntd_agencies finds no file and returns the built-in list
LoadBuiltinAgencies ==
    /\ apc = "load_ntd"
    /\ agencies' = BuiltinAgencies
    /\ apc' = "agencies_by_cbsa"
    /\ UNCHANGED << samplerVars, resolverVars, ntd_rows, gbfs_rows, agency_agg,
                    systems, gbfs_agg >>

\* agency_agg = agencies_by_cbsa(agencies)
AgenciesByCbsa ==
    /\ apc = "agencies_by_cbsa"
    /\ agency_agg' = agencies_by_cbsa(agencies)
    /\ apc' = "fetch_gbfs"
    /\ UNCHANGED << samplerVars, resolverVars, ntd_rows, gbfs_rows, agencies,
                    systems, gbfs_agg >>

\* fetch_gbfs_systems reads the catalog: the US rows, matched to a region,
\* the unmatched ones dropped
FetchGbfs ==
    /\ apc = "fetch_gbfs"
    /\ LET us == SelectSeq(gbfs_rows, LAMBDA r : Upper(r.country_code) = "US")
           matched == [i \in 1 .. Len(us) |->
                          [name |-> us[i].name, location |-> us[i].location,
                           cbsa_code |-> match_cbsa(us[i])]]
       IN  systems' = SelectSeq(matched, LAMBDA r : r.cbsa_code # EmptyStr)
    /\ apc' = "gbfs_by_cbsa"
    /\ UNCHANGED << samplerVars, resolverVars, ntd_rows, gbfs_rows, agencies,
                    agency_agg, gbfs_agg >>

\* fetch_gbfs_systems cannot read the catalog and returns the built-in list
FetchGbfsFails ==
    /\ apc = "fetch_gbfs"
    /\ systems' = BuiltinGbfs
    /\ apc' = "gbfs_by_cbsa"
    /\ UNCHANGED << samplerVars, resolverVars, ntd_rows, gbfs_rows, agencies,
                    agency_agg, gbfs_agg >>

\* gbfs_agg = gbfs_by_cbsa(gbfs)
GbfsByCbsa ==
    /\ apc = "gbfs_by_cbsa"
    /\ gbfs_agg' = gbfs_by_cbsa(systems)
    /\ apc' = "merge"
    /\ UNCHANGED << samplerVars, resolverVars, ntd_rows, gbfs_rows, agencies,
                    agency_agg, systems >>

NextAggregate ==
    \/ ParseNtdFile
    \/ LoadBuiltinAgencies
    \/ AgenciesByCbsa
    \/ FetchGbfs
    \/ FetchGbfsFails
    \/ GbfsByCbsa

SpecAggregate == InitAggregate /\ [][NextAggregate]_vars

\* ================================================================== claims

IdsOf(rows) == { rows[i].cbsa_code : i \in 1 .. Len(rows) }

\* C1: when the rebalancing loop ends, a converged loop leaves the sum of
\* the allocations equal to slots_left; a loop that did not converge
\* (iteration bound or early stop) leaves the sum <= slots_left and every
\* allocation <= the count of its stratum in the remaining pool.
AllocationSumInvariant ==
    loop_exit # "none" =>
        IF loop_exit = "converged"
        THEN SumAlloc(allocation, strata) = slots_left
        ELSE /\ SumAlloc(allocation, strata) <= slots_left
             /\ \A s \in Range(strata) : allocation[s] <= stratum_counts[s]

\* C2: whatever the row order of the frame, no region outside the mandatory
\* set has a strictly larger population than a region of the mandatory set.
MandatoryAreLargest ==
    pc \notin {"assign", "mandatory"} =>
        \A i \in 1 .. Len(mandatory) : \A j \in 1 .. Len(remaining_pool) :
            remaining_pool[j].population <= mandatory[i].population

\* C3: every region of the mandatory phase is in the returned sample, tagged
\* as a mandatory selection and with weight exactly 1.0.
MandatoryKeptWithWeightOne ==
    pc = "done" =>
        \A i \in 1 .. Len(mandatory) :
            /\ \E j \in 1 .. Len(sample) :
                  sample[j].cbsa_code = mandatory[i].cbsa_code
            /\ \A j \in 1 .. Len(sample) :
                  sample[j].cbsa_code = mandatory[i].cbsa_code =>
                      /\ sample[j].selection_method = "mandatory_top10"
                      /\ sample[j].sample_weight[2] # 0
                      /\ sample[j].sample_weight[1] = sample[j].sample_weight[2]

\* a returned sample with a mandatory region whose stratum has other members
\* outside the sample, after a coverage top-up
MandatoryKeptWitness ==
    /\ pc = "done"
    /\ topup_log # << >>
    /\ \E i \in 1 .. Len(mandatory) :
          CountOf(df, mandatory[i].stratum) # CountOf(sample, mandatory[i].stratum)

\* C4: a stratum with the same pool and the same number of picks gets the
\* same regions drawn in two calls that iterate the strata in different
\* orders.
DrawsIndependentOfStratumOrder ==
    (run = 2 /\ pc = "done") =>
        \A s \in Range(strata) \cap Range(first.strata) :
            ( /\ PoolOf(remaining_pool, s) = PoolOf(first.remaining_pool, s)
              /\ allocation[s] = first.allocation[s] )
            => IdsOf(picked[s]) = IdsOf(first.picked[s])

SampleContent(smp) ==
    { << smp[i].cbsa_code, smp[i].selection_method, smp[i].sample_weight >> :
        i \in 1 .. Len(smp) }

\* C5: two calls on the same frame, configuration and seed return the same
\* regions with the same selection_method and the same sample_weight.
SameInputsSameSample ==
    (run = 2 /\ pc \in {"done", "raised"} /\ msa_df = first.msa_df) =>
        /\ SampleContent(sample) = SampleContent(first.sample)
        /\ error = first.error

\* a second call on the same frame has returned, and one of its strata was
\* drawn from at random (fewer picks than the pool holds)
SameInputsWitness ==
    /\ run = 2
    /\ pc = "done"
    /\ msa_df = first.msa_df
    /\ \E s \in Range(strata) :
          Len(picked[s]) > 0 /\ Len(picked[s]) < Len(PoolOf(remaining_pool, s))

\* C8: every top-up addition is made below the coverage target and below
\* MAX_SAMPLE_SIZE and strictly increases coverage; when the top-up ends
\* below the target, the sample holds MAX_SAMPLE_SIZE regions.
TopUpStrictAndBounded ==
    /\ \A i \in 1 .. Len(topup_log) :
          /\ topup_log[i].after[2] = topup_log[i].before[2]
          /\ topup_log[i].after[2] > 0
          /\ topup_log[i].after[1] > topup_log[i].before[1]
          /\ BelowTarget(topup_log[i].before)
          /\ topup_log[i].size_before < MAX_SAMPLE_SIZE
    /\ (pc \in {"weights", "done"} /\ BelowTarget(pop_coverage))
           => Len(sample) >= MAX_SAMPLE_SIZE

\* the top-up has added two regions and select_sample has returned
TopUpWitness == pc = "done" /\ Len(topup_log) >= 2

\* C9: with mandatory_top_n > target_size, or with an empty universe,
\* select_sample returns no sample.
MalformedConfigRefused ==
    (TOP_N_MANDATORY > TARGET_SAMPLE_SIZE \/ msa_df = << >>) => pc # "done"

\* C10: every population gets the one bucket whose half-open range holds it,
\* a boundary value the upper bucket, a value below 0 the fallback Small.
PopulationBucketHalfOpen ==
    pc = "mandatory" =>
        \A i \in 1 .. Len(df) :
            LET p == df[i].population
            IN  /\ df[i].pop_stratum =
                       (IF p >= 5000000 THEN "Mega"
                        ELSE IF p >= 1000000 THEN "Large"
                        ELSE IF p >= 500000 THEN "Medium"
                        ELSE "Small")
                /\ df[i].stratum[1] = df[i].pop_stratum

\* assign_strata has bucketed a boundary value and a value below every bucket
PopulationBucketWitness ==
    /\ pc = "mandatory"
    /\ \E i, j \in 1 .. Len(df) :
          df[i].population = 5000000 /\ df[j].population = -1

\* the regions the index was built from, up to the row the build has reached
Processed == SubSeq(census, 1, build_pos)

\* the ids of the processed regions whose name holds the city token
RefsOf(city) ==
    { Processed[i].cbsa_code : i \in
        { k \in 1 .. Len(Processed) :
            city \in Range(parse_msa(Processed[k].NAME).cities) } }

ProcessedCities ==
    UNION { Range(parse_msa(Processed[i].NAME).cities) : i \in 1 .. Len(Processed) }

\* C6: resolving the canonical name of a region the index was built from
\* returns that region's id.
ResolverRoundTrip ==
    (rpc = "idle" /\ UZA_CBSA_CACHE.state = "built" /\ uza_name.kind = "str") =>
        \A i \in 1 .. Len(census) :
            uza_name.text = CanonicalName(census[i])
                => result = census[i].cbsa_code

\* C7: after any prefix of the build, every city token of a processed region
\* is in exactly one of city_only and city_ambig; it is in city_only exactly
\* when all processed regions that hold it have one id, which is its entry.
CityTokenPartition ==
    /\ DOMAIN city_only \cup city_ambig = ProcessedCities
    /\ \A city \in ProcessedCities :
          /\ (city \in DOMAIN city_only) # (city \in city_ambig)
          /\ (city \in DOMAIN city_only) <=> (Cardinality(RefsOf(city)) = 1)
          /\ city \in DOMAIN city_only => RefsOf(city) = { city_only[city] }

\* the build has met a city token of two regions and holds unambiguous ones
CityTokenWitness ==
    /\ build_pos >= 2
    /\ city_ambig # {}
    /\ city_only # << >>

MethodsOf(smp) == { smp[i].selection_method : i \in 1 .. Len(smp) }

IdsTagged(smp, method) ==
    { smp[i].cbsa_code : i \in { k \in 1 .. Len(smp) : smp[k].selection_method = method } }

\* C11: no region id appears twice in the sample, at any point from the
\* combination on: the mandatory rows, the stratified_random draws and the
\* coverage_boost additions are pairwise disjoint.
NoRegionTwice ==
    pc \in {"topup", "weights", "done"} =>
        /\ \A i, j \in 1 .. Len(sample) :
              i # j => sample[i].cbsa_code # sample[j].cbsa_code
        /\ IdsOf(mandatory) \cap IdsOf(sampled) = {}
        /\ IdsTagged(sample, "coverage_boost")
               \cap (IdsOf(mandatory) \cup IdsOf(sampled)) = {}
        /\ Cardinality(IdsOf(sample)) = Len(sample)

\* a returned sample that holds a mandatory region, a drawn one and a
\* coverage_boost one
NoRegionTwiceWitness ==
    /\ pc = "done"
    /\ MethodsOf(sample) = {"mandatory_top10", "stratified_random", "coverage_boost"}

\* C12: every row of the returned sample that is not a mandatory selection
\* has the weight (regions of its stratum in the frame) / (regions of its
\* stratum in the returned sample, whatever their selection_method).
NonMandatoryWeight ==
    pc = "done" =>
        \A i \in 1 .. Len(sample) :
            sample[i].selection_method # "mandatory_top10" =>
                sample[i].sample_weight =
                    << Cardinality({ k \in 1 .. Len(df) :
                           df[k].stratum = sample[i].stratum }),
                       Cardinality({ k \in 1 .. Len(sample) :
                           sample[k].stratum = sample[i].stratum }) >>

\* a returned coverage_boost region shares its stratum with a mandatory
\* region of the sample and with a region left out of it
NonMandatoryWeightWitness ==
    /\ pc = "done"
    /\ \E i, j \in 1 .. Len(sample) :
          /\ sample[i].selection_method = "coverage_boost"
          /\ sample[j].selection_method = "mandatory_top10"
          /\ sample[i].stratum = sample[j].stratum
          /\ sample[i].sample_weight[1] > sample[i].sample_weight[2]

\* select_sample was called on the universe of populations 10,000,000;
\* 2,000,000; 600,000; 100,000 in this order with mandatory_top_n = 1 and
\* target_size = 3 (MIN_POPULATION_COVERAGE is 0.5)
FourBucketCall ==
    /\ Len(msa_df) = 4
    /\ [i \in 1 .. 4 |-> msa_df[i].population]
           = << 10000000, 2000000, 600000, 100000 >>
    /\ TOP_N_MANDATORY = 1
    /\ TARGET_SAMPLE_SIZE = 3

\* what both statements of the scenario share: the 10,000,000 region is
\* mandatory with weight 1.0, exactly two of the other three regions are
\* stratified_random, and no region is a coverage_boost
FourBucketSelection ==
    /\ \E i \in 1 .. Len(sample) :
          /\ sample[i].population = 10000000
          /\ sample[i].selection_method = "mandatory_top10"
          /\ sample[i].sample_weight = << 1, 1 >>
    /\ Cardinality(IdsTagged(sample, "stratified_random")) = 2
    /\ \A i \in 1 .. Len(sample) :
          sample[i].selection_method = "stratified_random"
              => sample[i].population # 10000000
    /\ IdsTagged(sample, "coverage_boost") = {}
    /\ Len(sample) = 3

DallasName == << "Dallas", "-", "Fort Worth", "-", "Arlington", ",", " ", "TX" >>

DallasUza == << "Dallas", "-", "-", "Fort Worth", ",", " ", "TX" >>

\* C14: with an index built from a universe that holds the region
\* "Dallas-Fort Worth-Arlington, TX", resolving "Dallas--Fort Worth, TX"
\* returns that region's id, found in the (city, state) table.
DallasResolvesByCityState ==
    ( /\ rpc = "idle"
      /\ UZA_CBSA_CACHE.state = "built"
      /\ uza_name = [kind |-> "str", text |-> DallasUza] )
    => \A i \in 1 .. Len(census) :
          CanonicalName(census[i]) = DallasName =>
              /\ result = census[i].cbsa_code
              /\ << << "dallas" >>, << "TX" >> >> \in DOMAIN UZA_CBSA_CACHE.city_state
              /\ UZA_CBSA_CACHE.city_state[<< << "dallas" >>, << "TX" >> >>]
                     = census[i].cbsa_code
              /\ Lookup(UZA_CBSA_CACHE, uza_name.text).via = "city_state"

\* "Dallas--Fort Worth, TX" was resolved against an index built from the
\* Dallas region and two more
DallasWitness ==
    /\ rpc = "idle"
    /\ UZA_CBSA_CACHE.state = "built"
    /\ uza_name = [kind |-> "str", text |-> DallasUza]
    /\ Len(census) >= 3
    /\ \E i \in 2 .. Len(census) : CanonicalName(census[i]) = DallasName

\* C15: a call with a missing or empty argument, or with one that holds
\* "non-uza" in any letter case, returns "", whatever the state of the index;
\* so does every call once the build of the index has failed.
SentinelAndFailureUnresolved ==
    (rpc = "idle" /\ uza_name # NoCall) =>
        /\ (IsMissing(uza_name) \/ Contains(LowerStr(uza_name.text), << "non", "-", "uza" >>))
               => result = EmptyStr
        /\ UZA_CBSA_CACHE.state = "empty" => result = EmptyStr

\* a sentinel text in upper case that names a city of the built index
SentinelWitness ==
    /\ rpc = "idle"
    /\ UZA_CBSA_CACHE.state = "built"
    /\ << << "dallas" >>, << "TX" >> >> \in DOMAIN UZA_CBSA_CACHE.city_state
    /\ uza_name.kind = "str"
    /\ Contains(uza_name.text, << "Dallas" >>)
    /\ Contains(uza_name.text, << "NON", "-", "UZA" >>)
    /\ result = EmptyStr

\* C16: the index is fetched and built at most once in a process; a call
\* that needs the index while the cache is unset fetches, a call that does
\* not need it never fetches, and once the cache is set (built, or empty
\* after a failed fetch) no call fetches, builds or changes it, and every
\* call on the empty cache returns "".
IndexBuiltOnce ==
    [][ /\ fetches' <= 1
        /\ builds' <= 1
        /\ UZA_CBSA_CACHE.state # "None" =>
               /\ UZA_CBSA_CACHE' = UZA_CBSA_CACHE
               /\ fetches' = fetches
               /\ builds' = builds
               /\ rpc' = "idle"
        /\ (UZA_CBSA_CACHE.state = "empty" /\ calls' # calls) => result' = EmptyStr
        /\ (UZA_CBSA_CACHE.state = "None" /\ rpc = "idle" /\ calls' # calls) =>
               IF IsMissing(uza_name')
                  \/ Contains(LowerStr(uza_name'.text), << "non", "-", "uza" >>)
               THEN fetches' = fetches /\ UZA_CBSA_CACHE' = UZA_CBSA_CACHE
               ELSE fetches' = fetches + 1
      ]_vars

\* a third call resolved a name against the index the first call built
IndexReusedWitness ==
    /\ rpc = "idle"
    /\ calls = 3
    /\ fetches = 1
    /\ builds = 1
    /\ UZA_CBSA_CACHE.state = "built"
    /\ result # EmptyStr

\* C17: every decrement of the rebalancing loop is made while the sum
\* exceeds slots_left, on a stratum whose allocation is positive and, at
\* that moment, the largest of all strata; no allocation is ever below 0.
DecrementTakesLargest ==
    /\ \A s \in DOMAIN allocation : allocation[s] >= 0
    /\ last_change.kind = "dec" =>
          /\ SumAlloc(last_change.before, strata) > slots_left
          /\ last_change.before[last_change.stratum] > 0
          /\ \A t \in Range(strata) :
                last_change.before[t] <= last_change.before[last_change.stratum]

\* C18: every increment of the rebalancing loop is made while the sum is
\* below slots_left, on a stratum whose room (count - allocation) is
\* positive and, at that moment, the largest of all strata; an early stop
\* leaves every allocation equal to the count of its stratum.
IncrementTakesMostRoom ==
    /\ last_change.kind = "inc" =>
          /\ SumAlloc(last_change.before, strata) < slots_left
          /\ stratum_counts[last_change.stratum]
                 - last_change.before[last_change.stratum] > 0
          /\ \A t \in Range(strata) :
                stratum_counts[t] - last_change.before[t]
                    <= stratum_counts[last_change.stratum]
                           - last_change.before[last_change.stratum]
    /\ loop_exit = "early_stop" =>
          \A s \in Range(strata) : allocation[s] = stratum_counts[s]

\* C19: when the remaining pool has no more distinct strata than slots_left,
\* every stratum has an allocation of at least 1 when the loop ends and at
\* least one of its regions is drawn.
EveryStratumRepresented ==
    (loop_exit # "none" /\ Len(strata) <= slots_left) =>
        /\ \A s \in Range(strata) : allocation[s] >= 1
        /\ pc \in {"topup", "weights", "done"} =>
               \A s \in Range(strata) : Len(picked[s]) >= 1

\* C20: the outputs of agencies_by_cbsa and of gbfs_by_cbsa have no row
\* keyed by the unresolved id "", and every row counts and lists exactly the
\* records that resolved to its id.
AggregatorsDropUnresolved ==
    /\ apc \in {"fetch_gbfs", "gbfs_by_cbsa", "merge"} =>
          /\ EmptyStr \notin DOMAIN agency_agg
          /\ \A k \in DOMAIN agency_agg :
                /\ agency_agg[k].n_agencies =
                       Cardinality({ i \in 1 .. Len(agencies) :
                           agencies[i].cbsa_code = k /\ k # EmptyStr })
                /\ agency_agg[k].n_agencies >= 1
    /\ apc = "merge" =>
          /\ EmptyStr \notin DOMAIN gbfs_agg
          /\ \A k \in DOMAIN gbfs_agg :
                /\ gbfs_agg[k].n_shared_mobility =
                       Cardinality({ i \in 1 .. Len(systems) :
                           systems[i].cbsa_code = k /\ k # EmptyStr })
                /\ gbfs_agg[k].n_shared_mobility >= 1

\* the call that just returned probed a built index
ProbedBuiltIndex ==
    /\ rpc = "idle"
    /\ UZA_CBSA_CACHE.state = "built"
    /\ uza_name.kind = "str"
    /\ uza_name.text # EmptyStr
    /\ ~ Contains(LowerStr(uza_name.text), << "non", "-", "uza" >>)

\* C21: the result is the exact entry of the first (city, state) pair of the
\* input that the exact table holds, city tokens in input order and state
\* tokens in input order within a city; with no such pair it is the entry
\* of the first city token that the unambiguous table holds; otherwise "".
\* A city token of the ambiguous set is not in the unambiguous table.
StrictProbeOrder ==
    ProbedBuiltIndex =>
        LET cities == UzaCities(uza_name.text)
            states == UzaStates(uza_name.text)
            exact == UZA_CBSA_CACHE.city_state
            unamb == UZA_CBSA_CACHE.city_only
            cs == { << i, j >> \in (1 .. Len(cities)) \X (1 .. Len(states)) :
                      << cities[i], states[j] >> \in DOMAIN exact }
            co == { i \in 1 .. Len(cities) : cities[i] \in DOMAIN unamb }
        IN  /\ cs # {} =>
                  \E h \in cs :
                      /\ \A o \in cs : h[1] < o[1] \/ (h[1] = o[1] /\ h[2] <= o[2])
                      /\ result = exact[<< cities[h[1]], states[h[2]] >>]
            /\ (cs = {} /\ co # {}) =>
                  \E h \in co :
                      /\ \A o \in co : h <= o
                      /\ result = unamb[cities[h]]
            /\ (cs = {} /\ co = {}) => result = EmptyStr
            /\ \A i \in 1 .. Len(cities) :
                  cities[i] \in city_ambig => cities[i] \notin DOMAIN unamb

\* a call whose first city token is in the unambiguous table with one id
\* while a later pair is in the exact table with another id
StrictProbeWitness ==
    /\ ProbedBuiltIndex
    /\ LET cities == UzaCities(uza_name.text)
           states == UzaStates(uza_name.text)
       IN  /\ Len(cities) >= 2
           /\ Len(states) >= 1
           /\ cities[1] \in DOMAIN UZA_CBSA_CACHE.city_only
           /\ << cities[2], states[1] >> \in DOMAIN UZA_CBSA_CACHE.city_state
           /\ UZA_CBSA_CACHE.city_only[cities[1]]
                 # UZA_CBSA_CACHE.city_state[<< cities[2], states[1] >>]
           /\ cities[2] \in city_ambig
           /\ result = UZA_CBSA_CACHE.city_state[<< cities[2], states[1] >>]

\* 0 <= slots_left <= number of regions of the remaining pool
SlotsInRange ==
    /\ pc \notin {"assign", "mandatory"}
    /\ 0 <= slots_left
    /\ slots_left <= Len(remaining_pool)

\* C22: with slots_left in range the loop ends by convergence before its
\* bound, the allocations sum to slots_left and the sample before top-up
\* holds TARGET_SAMPLE_SIZE regions; no exception is raised up to the end of
\* the loop and of the draws, with slots_left in range or not.
LoopConvergesInRange ==
    /\ (SlotsInRange /\ loop_exit # "none") =>
          /\ loop_exit = "converged"
          /\ iter < LoopBound
          /\ SumAlloc(allocation, strata) = slots_left
    /\ (SlotsInRange /\ pc \in {"topup", "weights"} /\ topup_log = << >>) =>
          Len(sample) = TARGET_SAMPLE_SIZE
    /\ pc \in {"allocate", "loop", "remove", "add", "draw"} => error = ""
    /\ (pc = "raised" \/ error # "") => loop_exit # "none"

\* the loop converged after an addition pass over five strata of very uneven
\* sizes, and the draws are combined
LoopConvergesWitness ==
    /\ SlotsInRange
    /\ loop_exit = "converged"
    /\ iter >= 1
    /\ last_change.kind = "inc"
    /\ Len(strata) >= 5
    /\ \E s, t \in Range(strata) : stratum_counts[s] >= 5 * stratum_counts[t]
    /\ pc = "weights"
    /\ Len(sample) = TARGET_SAMPLE_SIZE

\* mandatory_top_n <= target_size <= max_size
SizesInOrder ==
    /\ TOP_N_MANDATORY <= TARGET_SAMPLE_SIZE
    /\ TARGET_SAMPLE_SIZE <= MAX_SAMPLE_SIZE

\* C23: with the three sizes in order, the sample never holds more than
\* MAX_SAMPLE_SIZE regions, from the combination to the return; the regions
\* that are not coverage_boost additions are at most TARGET_SAMPLE_SIZE, so
\* a sample larger than that holds a coverage_boost region.
SampleSizeBounded ==
    (SizesInOrder /\ pc \in {"topup", "weights", "done"}) =>
        /\ Len(sample) <= MAX_SAMPLE_SIZE
        /\ Cardinality({ i \in 1 .. Len(sample) :
               sample[i].selection_method # "coverage_boost" }) <= TARGET_SAMPLE_SIZE
        /\ Len(sample) > TARGET_SAMPLE_SIZE =>
               /\ topup_log # << >>
               /\ \E i \in 1 .. Len(sample) :
                     sample[i].selection_method = "coverage_boost"

\* a returned sample that the top-up took above TARGET_SAMPLE_SIZE, up to
\* MAX_SAMPLE_SIZE, while the coverage stayed below the target
SampleSizeWitness ==
    /\ SizesInOrder
    /\ pc = "done"
    /\ Len(sample) > TARGET_SAMPLE_SIZE
    /\ Len(sample) = MAX_SAMPLE_SIZE
    /\ Len(sample) < Len(df)
    /\ BelowTarget(pop_coverage)

====
